---------------------------- MODULE Spec2Model ----------------------------
(***************************************************************************)
(* API-call logging facility of anon-kode:                                 *)
(*   src/src/utils/apiLogger.ts   sanitizer, log writer, fetch             *)
(*                                interceptor, withApiLogging wrapper      *)
(*   src/src/commands/apilogs.ts  the /apilogs inspection command          *)
(*                                                                         *)
(* JavaScript values are modelled as tagged records so that values of      *)
(* different JavaScript types stay comparable.  Text (file contents,       *)
(* request and response bodies) is a sequence of chunks: a literal piece   *)
(* of non-JSON text, the serialisation of one JSON document, or a newline. *)
(***************************************************************************)
EXTENDS Naturals, Integers, Sequences, FiniteSets, TLC

VARIABLES
  fs,       \* the logs directory: whether it exists, and its files
  now,      \* the wall clock, in ticks (Date.now())
  nextId,   \* source of randomUUID() values
  calls,    \* the intercepted / wrapped calls, by invocation
  appends,  \* history: the lines appended, with their dates, in the order appendFileSync ran
  cmd,      \* the /apilogs command last run and its result
  san,      \* the sanitizer pipeline under test
  svc       \* the service classifier under test

vars == <<fs, now, nextId, calls, appends, cmd, san, svc>>

(***************************************************************************)
(* Bounds of the model.                                                    *)
(***************************************************************************)
MaxDepth == 2      \* nesting depth of the JSON values handed to the sanitizer
MaxCalls == 1      \* invocations of the interceptor / wrapper in one run of Spec
MaxInFlight == 2   \* intercepted calls in one run of SpecConc
DayLen == 2        \* clock ticks per calendar day
MaxLines == 2      \* lines of a log file handed to the inspection command
MaxTail == 3       \* largest numeric argument given to tail / view
MaxFrags == 2      \* fragments a hostname is assembled from

(***************************************************************************)
(* JavaScript values.                                                      *)
(***************************************************************************)
NoKids == [k \in {} |-> 0]

Undefined == [t |-> "undefined", n |-> 0, kids |-> NoKids, txt |-> <<>>]
Null == [t |-> "null", n |-> 0, kids |-> NoKids, txt |-> <<>>]
Num(i) == [t |-> "number", n |-> i, kids |-> NoKids, txt |-> <<>>]
Obj(f) == [t |-> "object", n |-> 0, kids |-> f, txt |-> <<>>]
Arr(f) == [t |-> "array", n |-> 0, kids |-> f, txt |-> <<>>]
\* an Error instance: message and stack are own, non-enumerable properties
ErrorObj(m, st) ==
  [t |-> "error", n |-> 0, kids |-> [k \in {"message", "stack"} |->
      IF k = "message" THEN m ELSE st], txt |-> <<>>]
\* an object that holds a reference cycle
Circular == [t |-> "circular", n |-> 0, kids |-> NoKids, txt |-> <<>>]

\* a ReadableStream (the body of a Request instance)
Stream == [t |-> "stream", n |-> 0, kids |-> NoKids, txt |-> <<>>]

\* chunks of text
Lit(s) == [kind |-> "lit", lit |-> s, doc |-> Undefined]
JsonText(v) == [kind |-> "json", lit |-> "", doc |-> v]
NL == [kind |-> "nl", lit |-> "", doc |-> Undefined]

\* a string value holding the given text
StrOf(text) == [t |-> "string", n |-> 0, kids |-> NoKids, txt |-> text]
Str(s) == StrOf(IF s = "" THEN <<>> ELSE <<Lit(s)>>)

\* a Response instance: status, headers, body text; rid tells instances apart
Response(rid, status, hdrs, bodyText) ==
  [t |-> "response", n |-> status,
   kids |-> [k \in {"rid", "headers", "body"} |->
      CASE k = "rid" -> Num(rid) [] k = "headers" -> hdrs [] OTHER -> StrOf(bodyText)],
   txt |-> <<>>]

\* JavaScript truthiness
Truthy(v) ==
  CASE v.t \in {"undefined", "null"} -> FALSE
    [] v.t = "number" -> v.n # 0
    [] v.t = "string" -> v.txt # <<>>
    [] OTHER -> TRUE

\* typeof v === 'object'
TypeofObject(v) ==
  v.t \in {"null", "object", "array", "error", "circular", "response", "request", "stream"}

\* Object.keys(v): own enumerable string keys
ObjectKeys(v) == IF v.t \in {"object", "array"} THEN DOMAIN v.kids ELSE {}

\* v[key] for a value that is not null or undefined
Get(v, key) ==
  IF v.t \in {"object", "array", "error", "request"} /\ key \in DOMAIN v.kids
    THEN v.kids[key] ELSE Undefined

(***************************************************************************)
(* JSON.stringify and JSON.parse.                                          *)
(***************************************************************************)
RECURSIVE HasCycle(_)
HasCycle(v) ==
  \/ v.t = "circular"
  \/ v.t \in {"object", "array"} /\ \E k \in DOMAIN v.kids : HasCycle(v.kids[k])

\* the JSON document JSON.stringify(v) denotes, for a v without cycles:
\* undefined properties are dropped, undefined array elements become null,
\* instances without enumerable own properties become {}
RECURSIVE JsonDoc(_)
JsonDoc(v) ==
  CASE v.t = "object" ->
         Obj([k \in {j \in DOMAIN v.kids : v.kids[j].t # "undefined"} |-> JsonDoc(v.kids[k])])
    [] v.t = "array" ->
         Arr([k \in DOMAIN v.kids |->
               IF v.kids[k].t = "undefined" THEN Null ELSE JsonDoc(v.kids[k])])
    [] v.t \in {"error", "response", "request", "stream"} -> Obj(NoKids)
    [] OTHER -> v

\* JSON.stringify(v) of a defined v: it throws on a cycle
JSONstringify(v) ==
  IF HasCycle(v) THEN [threw |-> TRUE, text |-> <<>>]
  ELSE [threw |-> FALSE, text |-> <<JsonText(JsonDoc(v))>>]

\* JSON.parse(text): the text must be exactly one JSON document
JSONparse(text) ==
  IF Len(text) = 1 /\ text[1].kind = "json"
    THEN [threw |-> FALSE, val |-> text[1].doc]
    ELSE [threw |-> TRUE, val |-> Undefined]

(***************************************************************************)
(* Sanitizer (apiLogger.ts).                                               *)
(***************************************************************************)
REDACTED == "***REDACTED***"

SensitiveKeys ==
  {"api_key", "apiKey", "authorization", "Authorization", "token", "password", "key"}

\* sanitizeObject without the descent into nested objects
sanitizeObjectShallow(obj) ==
  IF ~Truthy(obj) \/ ~TypeofObject(obj) THEN obj
  ELSE [obj EXCEPT !.kids = [key \in ObjectKeys(obj) |->
          IF key \in SensitiveKeys THEN Str(REDACTED) ELSE obj.kids[key]]]

\* the object as sanitizeObject leaves it
RECURSIVE sanitizeObject(_)
sanitizeObject(obj) ==
  IF ~Truthy(obj) \/ ~TypeofObject(obj) THEN obj
  ELSE [obj EXCEPT !.kids = [key \in ObjectKeys(obj) |->
          IF key \in SensitiveKeys THEN Str(REDACTED)
          ELSE IF TypeofObject(obj.kids[key]) /\ obj.kids[key].t # "null"
            THEN sanitizeObject(obj.kids[key])
            ELSE obj.kids[key]]]

\* sanitizeData(data): ret is the value returned, arg the caller's value afterwards
\* (sanitizeObject works on the deep copy, so the argument is left as it was)
sanitizeData(data) ==
  IF ~Truthy(data) THEN [ret |-> data, arg |-> data]
  ELSE LET str == JSONstringify(data) IN
    IF str.threw
      THEN [ret |-> IF TypeofObject(data)
                      THEN Obj([k \in {"sanitized"} |->
                                 Str("[Object could not be safely sanitized]")])
                      ELSE data,
            arg |-> data]
      ELSE [ret |-> sanitizeObject(JSONparse(str.text).val), arg |-> data]
(***************************************************************************)
(* Log files (apiLogger.ts).                                               *)
(***************************************************************************)
\* a file name in the logs directory
FileName(stem, date, ext) == [stem |-> stem, date |-> date, ext |-> ext]

\* existsSync / mkdirSync(API_LOGS_PATH, {recursive: true})
ensureApiLogsDirectoryExists(fsIn, mkdirFails) ==
  IF fsIn.dirExists THEN [threw |-> FALSE, fs |-> fsIn]
  ELSE IF mkdirFails THEN [threw |-> TRUE, fs |-> fsIn]
  ELSE [threw |-> FALSE, fs |-> [fsIn EXCEPT !.dirExists = TRUE]]

\* the local calendar date at clock tick t
getCurrentDate(t) == t \div DayLen

\* api-log-YYYY-MM-DD.jsonl, after making sure the directory exists
getApiLogFilePath(fsIn, t, mkdirFails) ==
  LET e == ensureApiLogsDirectoryExists(fsIn, mkdirFails) IN
  [threw |-> e.threw, fs |-> e.fs,
   path |-> FileName("api-log-", getCurrentDate(t), ".jsonl")]

\* appendFileSync written as an overwrite of the file
appendFileSyncTruncating(fsIn, path, text, t, fails) ==
  IF fails \/ ~fsIn.dirExists THEN [threw |-> TRUE, fs |-> fsIn]
  ELSE [threw |-> FALSE,
        fs |-> [fsIn EXCEPT !.files =
                  [f \in DOMAIN fsIn.files \cup {path} |->
                    IF f = path
                      THEN [birth |-> IF path \in DOMAIN fsIn.files
                                        THEN fsIn.files[path].birth ELSE t,
                            text |-> text]
                      ELSE fsIn.files[f]]]]

\* fs.appendFileSync(path, text): creates the file when it is missing
appendFileSync(fsIn, path, text, t, fails) ==
  IF fails \/ ~fsIn.dirExists THEN [threw |-> TRUE, fs |-> fsIn]
  ELSE [threw |-> FALSE,
        fs |-> [fsIn EXCEPT !.files =
                  [f \in DOMAIN fsIn.files \cup {path} |->
                    IF f = path
                      THEN IF path \in DOMAIN fsIn.files
                        THEN [fsIn.files[path] EXCEPT !.text = @ \o text]
                        ELSE [birth |-> t, text |-> text]
                      ELSE fsIn.files[f]]]]

\* new Date().toISOString() and randomUUID(): strings that stand for t and id
IsoString(t) == [t |-> "string", n |-> t, kids |-> NoKids, txt |-> <<Lit("iso")>>]
Uuid(id) == [t |-> "string", n |-> id, kids |-> NoKids, txt |-> <<Lit("uuid")>>]

LogFields ==
  {"timestamp", "id", "service", "url", "method", "headers", "body",
   "responseHeaders", "responseBody", "statusCode", "error", "durationMs"}

\* the logEntry object literal of logApiCall
logEntry(a, t, id) ==
  Obj([k \in LogFields |->
    CASE k = "timestamp" -> IsoString(t)
      [] k = "id" -> Uuid(id)
      [] k = "service" -> IF a.service.t = "undefined" THEN Str("unknown") ELSE a.service
      [] k = "url" -> a.url
      [] k = "method" -> a.method
      [] k = "headers" -> sanitizeData(a.headers).ret
      [] k = "body" -> sanitizeData(a.body).ret
      [] k = "responseHeaders" ->
           IF Truthy(a.response) THEN a.response.kids["headers"] ELSE Undefined
      [] k = "responseBody" ->
           IF Truthy(a.responseBody) THEN sanitizeData(a.responseBody).ret ELSE Undefined
      [] k = "statusCode" ->
           IF Truthy(a.statusCode) THEN a.statusCode
           ELSE IF Truthy(a.response) THEN Num(a.response.n) ELSE Undefined
      [] k = "error" ->
           IF Truthy(a.error)
             THEN IF a.error.t = "error"
               THEN Obj([j \in {"message", "stack"} |-> a.error.kids[j]])
               ELSE a.error
             ELSE Undefined
      [] OTHER -> a.durationMs])

\* the caller's arguments as the sanitizer calls leave them
argsAfter(a) ==
  [a EXCEPT !.headers = sanitizeData(a.headers).arg,
            !.body = sanitizeData(a.body).arg,
            !.responseBody = IF Truthy(a.responseBody)
                               THEN sanitizeData(a.responseBody).arg ELSE a.responseBody]

\* the body of logApiCall's try block; env says which filesystem calls fail
logApiCallTry(a, fsIn, t, id, env) ==
  LET entry == logEntry(a, t, id)
      p == getApiLogFilePath(fsIn, t, env.mkdirFails)
      str == JSONstringify(entry)
      w == appendFileSync(p.fs, p.path, str.text \o <<NL>>, t, env.appendFails)
  IN  IF p.threw THEN [threw |-> TRUE, fs |-> p.fs, args |-> argsAfter(a)]
      ELSE IF str.threw THEN [threw |-> TRUE, fs |-> p.fs, args |-> argsAfter(a)]
      ELSE [threw |-> w.threw, fs |-> w.fs, args |-> argsAfter(a)]

\* logApiCall without its catch
logApiCallUncaught(a, fsIn, t, id, env) == logApiCallTry(a, fsIn, t, id, env)

\* logApiCall: whatever the try block throws is caught and reported on console.error
logApiCall(a, fsIn, t, id, env) ==
  [logApiCallTry(a, fsIn, t, id, env) EXCEPT !.threw = FALSE]

NoArgs ==
  [url |-> Undefined, method |-> Undefined, headers |-> Undefined, body |-> Undefined,
   response |-> Undefined, responseBody |-> Undefined, statusCode |-> Undefined,
   error |-> Undefined, durationMs |-> Undefined, service |-> Undefined]

Envs == [mkdirFails : BOOLEAN, appendFails : BOOLEAN]

(***************************************************************************)
(* Reading a file back: split('\n').filter(Boolean).                       *)
(***************************************************************************)
RECURSIVE SplitNL(_, _)
\* text.split('\n'): cur is the piece being collected
SplitNL(text, cur) ==
  IF text = <<>> THEN <<cur>>
  ELSE IF Head(text).kind = "nl" THEN <<cur>> \o SplitNL(Tail(text), <<>>)
  ELSE SplitNL(Tail(text), Append(cur, Head(text)))

NonEmptyLines(text) == SelectSeq(SplitNL(text, <<>>), LAMBDA l : l # <<>>)
(***************************************************************************)
(* Values shared by the specifications.                                    *)
(***************************************************************************)
NoFiles == [f \in {} |-> 0]
EmptyFs == [dirExists |-> FALSE, files |-> NoFiles]
NoCalls == [c \in {} |-> 0]
IdleCmd == [name |-> "none"]
IdleSan == [pc |-> "idle", field |-> "none", data |-> Undefined, orig |-> Undefined]
IdleSvc == [pc |-> "idle", host |-> <<>>, service |-> "none"]

\* today's log file, read back line by line and parsed
TodaysLines(fsIn, t) ==
  LET path == FileName("api-log-", getCurrentDate(t), ".jsonl") IN
  IF path \in DOMAIN fsIn.files THEN NonEmptyLines(fsIn.files[path].text) ELSE <<>>

(***************************************************************************)
(* SpecSanitize: logApiCall applied to one JSON value, passed as the       *)
(* headers, the body or the responseBody of the entry.                     *)
(***************************************************************************)
SanFields == {"headers", "body", "responseBody"}

JsonScalars == {Str("v"), Null}
ArrayShapes == {{}, {"0"}}

\* what a generated object holds under its sensitive key (sanitizeObject
\* overwrites that value without reading it)
UnderSensitive(sk) == JsonScalars \cup {Obj([k \in {sk} |-> Str("v")])}

RECURSIVE JsonValues(_, _)
\* JSON values nested at most d deep: scalars, arrays, and objects that may
\* hold the sensitive key sk and the plain key "name"
JsonValues(d, sk) ==
  IF d = 0 THEN JsonScalars
  ELSE LET sub == JsonValues(d - 1, sk) IN
    JsonScalars
      \cup {Obj(NoKids)}
      \cup {Obj([k \in {sk} |-> u]) : u \in UnderSensitive(sk)}
      \cup {Obj([k \in {"name"} |-> c]) : c \in sub}
      \cup {Obj([k \in {sk, "name"} |-> IF k = sk THEN u ELSE c]) :
              u \in UnderSensitive(sk), c \in sub}
      \cup {Arr(f) : f \in UNION {[K -> sub] : K \in ArrayShapes}}

SanInputs == UNION {JsonValues(MaxDepth, sk) : sk \in SensitiveKeys}

InitSanitize ==
  /\ fs = EmptyFs /\ now = 0 /\ nextId = 1
  /\ calls = NoCalls /\ appends = <<>> /\ cmd = IdleCmd /\ svc = IdleSvc
  /\ san \in {[pc |-> "ready", field |-> f, data |-> d, orig |-> d] :
                f \in SanFields, d \in SanInputs}

\* logApiCall({url, method, durationMs, [field]: data}) by a caller that keeps data
SanLog ==
  /\ san.pc = "ready"
  /\ \E env \in Envs :
       LET a == [NoArgs EXCEPT !.url = Str("https://example.com/"), !.method = Str("POST"),
                               !.durationMs = Num(1), ![san.field] = san.data]
           r == logApiCall(a, fs, now, nextId, env)
       IN  /\ fs' = r.fs
           /\ san' = [san EXCEPT !.pc = IF TodaysLines(r.fs, now) = TodaysLines(fs, now)
                                         THEN "failed" ELSE "done",
                                 !.data = r.args[san.field]]
  /\ nextId' = nextId + 1
  /\ UNCHANGED <<now, calls, appends, cmd, svc>>

NextSanitize == SanLog

SpecSanitize == InitSanitize /\ [][NextSanitize]_vars

\* the nodes of a JSON value, as key paths from its root
RECURSIVE Paths(_)
Paths(v) ==
  IF v.t \in {"object", "array"}
    THEN UNION {{<<k>>} \cup {<<k>> \o p : p \in Paths(v.kids[k])} : k \in DOMAIN v.kids}
    ELSE {}

RECURSIVE At(_, _)
At(v, p) == IF p = <<>> THEN v ELSE At(v.kids[Head(p)], Tail(p))

\* a node's own content: its type, its scalar content, its key set
Own(v) == [t |-> v.t, n |-> v.n, txt |-> v.txt, keys |-> DOMAIN v.kids]

SensitiveAt(p) == {i \in 1..Len(p) : p[i] \in SensitiveKeys}

\* the value the written entry carries for the field under test
SanWritten == Get(JSONparse(TodaysLines(fs, now)[1]).val, san.field)

\* C4: in the written entry every sensitive key carries the redaction marker at
\* any depth (inside arrays too), every key that is neither sensitive nor below
\* a sensitive key keeps its own content, and the caller's value is unchanged.
C4_Redaction ==
  san.pc = "done" =>
    /\ san.data = san.orig
    /\ Truthy(san.orig) =>
         /\ Own(SanWritten) = Own(san.orig)
         /\ \A p \in Paths(san.orig) :
              /\ SensitiveAt(p) = {} =>
                   /\ p \in Paths(SanWritten)
                   /\ Own(At(SanWritten, p)) = Own(At(san.orig, p))
              /\ SensitiveAt(p) = {Len(p)} =>
                   /\ p \in Paths(SanWritten)
                   /\ At(SanWritten, p) = Str(REDACTED)
         /\ \A p \in Paths(SanWritten) :
              p[Len(p)] \in SensitiveKeys => At(SanWritten, p) = Str(REDACTED)

\* C4 witness: an entry was written whose value holds a sensitive key two levels
\* down, next to a key that is not sensitive
C4_Witness ==
  /\ san.pc = "done"
  /\ \E p \in Paths(san.orig) : Len(p) = 2 /\ SensitiveAt(p) = {2}
  /\ \E p \in Paths(san.orig) : SensitiveAt(p) = {} /\ At(san.orig, p).t = "string"
(***************************************************************************)
(* Service classification (apiLogger.ts).  Hostnames are sequences of      *)
(* characters, so that String.prototype.includes is a substring search.    *)
(***************************************************************************)
P_anthropic_com == <<"a", "n", "t", "h", "r", "o", "p", "i", "c", ".", "c", "o", "m">>
P_claude == <<"c", "l", "a", "u", "d", "e">>
P_openai_com == <<"o", "p", "e", "n", "a", "i", ".", "c", "o", "m">>
P_oai == <<"o", "a", "i">>
P_anthropic_bedrock == <<"a", "n", "t", "h", "r", "o", "p", "i", "c", "-", "b", "e", "d", "r", "o", "c", "k">>
P_vertex_ai == <<"v", "e", "r", "t", "e", "x", "-", "a", "i">>
P_amazonaws_com == <<"a", "m", "a", "z", "o", "n", "a", "w", "s", ".", "c", "o", "m">>
P_google == <<"g", "o", "o", "g", "l", "e">>
F_api == <<"a", "p", "i", ".">>
F_s3 == <<"s", "3", ".">>
F_example_com == <<"e", "x", "a", "m", "p", "l", "e", ".", "c", "o", "m">>
F_dot == <<".">>

\* hostname.includes(pat)
includes(h, pat) ==
  \E i \in 1..(Len(h) + 1) : i + Len(pat) - 1 <= Len(h) /\ SubSeq(h, i, i + Len(pat) - 1) = pat

\* a parsed URL: new URL(url)
Url(host, path) == [protocol |-> "https:", hostname |-> host, pathname |-> path]

\* getServiceFromUrl with the openai test put before the anthropic test
getServiceFromUrlSwapped(url) ==
  LET hostname == url.hostname IN
  IF includes(hostname, P_openai_com) \/ includes(hostname, P_oai) THEN "openai"
  ELSE IF includes(hostname, P_anthropic_com) \/ includes(hostname, P_claude) THEN "anthropic"
  ELSE IF includes(hostname, P_anthropic_bedrock) THEN "anthropic-bedrock"
  ELSE IF includes(hostname, P_vertex_ai) THEN "anthropic-vertex"
  ELSE IF includes(hostname, P_amazonaws_com) THEN "aws"
  ELSE IF includes(hostname, P_google) THEN "google"
  ELSE "unknown"

getServiceFromUrl(url) ==
  LET hostname == url.hostname IN
  IF includes(hostname, P_anthropic_com) \/ includes(hostname, P_claude) THEN "anthropic"
  ELSE IF includes(hostname, P_openai_com) \/ includes(hostname, P_oai) THEN "openai"
  ELSE IF includes(hostname, P_anthropic_bedrock) THEN "anthropic-bedrock"
  ELSE IF includes(hostname, P_vertex_ai) THEN "anthropic-vertex"
  ELSE IF includes(hostname, P_amazonaws_com) THEN "aws"
  ELSE IF includes(hostname, P_google) THEN "google"
  ELSE "unknown"

\* the pieces hostnames are assembled from
HostFragments ==
  {P_anthropic_com, P_claude, P_openai_com, P_oai, P_anthropic_bedrock, P_vertex_ai,
   P_amazonaws_com, P_google, F_api, F_s3, F_example_com, F_dot}

RECURSIVE Hostnames(_)
\* the hostnames made of 1..n fragments
Hostnames(n) ==
  IF n = 0 THEN {}
  ELSE HostFragments \cup {h \o f : h \in Hostnames(n - 1), f \in HostFragments}

InitService ==
  /\ fs = EmptyFs /\ now = 0 /\ nextId = 1
  /\ calls = NoCalls /\ appends = <<>> /\ cmd = IdleCmd /\ san = IdleSan
  /\ svc \in {[pc |-> "ready", host |-> h, service |-> "none"] : h \in Hostnames(MaxFrags)}

\* getServiceFromUrl(url) for a URL with the hostname under test
Classify ==
  /\ svc.pc = "ready"
  /\ svc' = [svc EXCEPT !.pc = "done",
                        !.service = getServiceFromUrl(Url(svc.host, <<"/", "v", "1">>))]
  /\ UNCHANGED <<fs, now, nextId, calls, appends, cmd, san>>

NextService == Classify

SpecService == InitService /\ [][NextService]_vars

\* the table of the claim: substrings, in test order, with their labels
ServiceTable ==
  << <<{P_anthropic_com, P_claude}, "anthropic">>,
     <<{P_openai_com, P_oai}, "openai">>,
     <<{P_anthropic_bedrock}, "anthropic-bedrock">>,
     <<{P_vertex_ai}, "anthropic-vertex">>,
     <<{P_amazonaws_com}, "aws">>,
     <<{P_google}, "google">> >>

RowsMatching(h) ==
  {i \in 1..Len(ServiceTable) : \E pat \in ServiceTable[i][1] : includes(h, pat)}

\* the label of the earliest row of the table that matches h
FirstLabel(h) ==
  IF RowsMatching(h) = {} THEN "unknown"
  ELSE ServiceTable[CHOOSE i \in RowsMatching(h) : \A j \in RowsMatching(h) : i <= j][2]

\* C10: the label is that of the first matching row of the table, "unknown"
\* without a match; the four hostnames the spec lists get the labels it gives.
C10_Classification ==
  svc.pc = "done" =>
    /\ svc.service = FirstLabel(svc.host)
    /\ svc.host = F_api \o P_anthropic_com => svc.service = "anthropic"
    /\ svc.host = F_api \o P_openai_com => svc.service = "openai"
    /\ svc.host = F_s3 \o P_amazonaws_com => svc.service = "aws"
    /\ svc.host = F_example_com => svc.service = "unknown"

\* C10 witness: a classified hostname that matches two rows of the table
C10_Witness ==
  /\ svc.pc = "done"
  /\ Cardinality(RowsMatching(svc.host)) >= 2
  /\ svc.service = "openai"
(***************************************************************************)
(* The inspection command (apilogs.ts).                                    *)
(***************************************************************************)
\* a URL as a string: scheme, host name, path and query
UrlStr(host, path) == StrOf(<<Lit("https://"), Lit(host), Lit(path)>>)

\* new URL(url): it throws on anything but a URL string
ParseUrl(v) ==
  IF v.t = "string" /\ Len(v.txt) = 3 /\ v.txt[1] = Lit("https://")
    THEN [threw |-> FALSE, host |-> v.txt[2].lit, pathname |-> StrOf(<<v.txt[3]>>)]
    ELSE [threw |-> TRUE, host |-> "", pathname |-> Undefined]

getUrlPath(url) == IF ParseUrl(url).threw THEN url ELSE ParseUrl(url).pathname

\* one piece of the text formatAndDisplayLogEntry builds
Seg(part, val) == [part |-> part, val |-> val]

\* a || b
OrElse(a, b) == IF Truthy(a) THEN a ELSE b

\* formatAndDisplayLogEntry(entry): the pieces of the text, in order; it throws
\* on reading a property of null and on method.toUpperCase of a non-string
formatAndDisplayLogEntry(entry) ==
  IF entry.t \in {"null", "undefined"} THEN [threw |-> TRUE, out |-> <<>>]
  ELSE IF Truthy(Get(entry, "raw")) THEN [threw |-> FALSE, out |-> <<Seg("raw", Get(entry, "raw"))>>]
  ELSE
    LET request == Get(entry, "request")
        response == Get(entry, "response")
        error == Get(entry, "error")
        method == OrElse(Get(request, "method"), Str("UNKNOWN"))
        url == OrElse(Get(request, "url"), Str(""))
    IN
    [threw |-> Truthy(request) /\ method.t # "string",
     out |->
       (IF Truthy(Get(entry, "timestamp")) THEN <<Seg("timestamp", Get(entry, "timestamp"))>> ELSE <<>>)
       \o (IF Truthy(Get(entry, "service")) THEN <<Seg("service", Get(entry, "service"))>> ELSE <<>>)
       \o (IF Truthy(request)
             THEN <<Seg("method", method), Seg("path", getUrlPath(url))>>
                  \o (IF Truthy(Get(request, "headers")) /\ ObjectKeys(Get(request, "headers")) # {}
                        THEN <<Seg("headers", Get(request, "headers"))>> ELSE <<>>)
                  \o (IF Truthy(Get(request, "body"))
                        THEN <<Seg("body", Get(request, "body"))>> ELSE <<>>)
             ELSE <<>>)
       \o (IF Truthy(response)
             THEN <<Seg("status", OrElse(Get(response, "status"), Num(0)))>>
                  \o (IF Truthy(Get(entry, "responseTime"))
                        THEN <<Seg("duration", Get(entry, "responseTime"))>> ELSE <<>>)
                  \o (IF Truthy(Get(response, "body"))
                        THEN <<Seg("responseBody", Get(response, "body"))>> ELSE <<>>)
             ELSE <<>>)
       \o (IF Truthy(error)
             THEN <<Seg("error", OrElse(Get(error, "message"), error))>>
                  \o (IF Truthy(Get(error, "stack"))
                        THEN <<Seg("stack", Get(error, "stack"))>> ELSE <<>>)
             ELSE <<>>)]

\* file.endsWith('.log') || file.endsWith('.jsonl')
IsLogName(f) == f.ext \in {".log", ".jsonl"}

\* the line parsed, or the fallback record { raw: line }
ParseLine(line) ==
  IF JSONparse(line).threw THEN Obj([k \in {"raw"} |-> StrOf(line)]) ELSE JSONparse(line).val

\* logEntries.slice(-numLines)
SliceLast(seq, n) ==
  IF n >= Len(seq) THEN seq ELSE SubSeq(seq, Len(seq) - n + 1, Len(seq))

\* what a command returns: a message, or the heading of a file and its entries
Message(msg) ==
  [threw |-> FALSE, kind |-> "message", msg |-> msg, file |-> FileName("", 0, ""),
   entries |-> <<>>, shown |-> <<>>, count |-> 0]

\* viewLogFile for a file of the logs directory; entries is its logEntries array
viewLogFile(fsIn, file, numLines) ==
  IF ~fsIn.dirExists \/ file \notin DOMAIN fsIn.files THEN Message("Log file not found")
  ELSE
    LET lines == NonEmptyLines(fsIn.files[file].text)
        logEntries == [i \in 1..Len(lines) |-> ParseLine(lines[i])]
        entriesToShow == IF numLines > 0 THEN SliceLast(logEntries, numLines) ELSE logEntries
    IN
    IF Len(logEntries) = 0 THEN Message("Log file is empty")
    ELSE IF \E i \in 1..Len(entriesToShow) : formatAndDisplayLogEntry(entriesToShow[i]).threw
      THEN [Message("Error viewing log file") EXCEPT !.entries = logEntries]
      ELSE [threw |-> FALSE, kind |-> "entries", msg |-> "Log File", file |-> file,
            entries |-> logEntries,
            shown |-> [i \in 1..Len(entriesToShow) |->
                         formatAndDisplayLogEntry(entriesToShow[i]).out],
            count |-> 0]

\* the file a view argument names: a bare name gets the directory, and the
\* default extension when it has none
ResolveView(arg) == IF arg.ext = "" THEN [arg EXCEPT !.ext = ".jsonl"] ELSE arg

\* the default of tail's n
TailDefault == 20

\* tailLogs: the log file with the latest birthtime, through viewLogFile
tailLogs(fsIn, numLines) ==
  IF ~fsIn.dirExists THEN Message("Error tailing logs")
  ELSE
    LET files == {f \in DOMAIN fsIn.files : IsLogName(f)} IN
    IF files = {} THEN Message("No log files found")
    ELSE LET latestLog == CHOOSE f \in files :
                            \A g \in files : fsIn.files[g].birth <= fsIn.files[f].birth
         IN viewLogFile(fsIn, latestLog, numLines)

\* answer.toLowerCase()
toLowerCase(s) == CASE s = "Y" -> "y" [] s = "YES" -> "yes" [] s = "N" -> "n" [] OTHER -> s

\* the loop without the test of the extension
RECURSIVE unlinkLoopAll(_, _, _, _)
unlinkLoopAll(fsIn, files, failAt, deletedCount) ==
  IF files = <<>> THEN [threw |-> FALSE, fs |-> fsIn, deletedCount |-> deletedCount]
  ELSE IF failAt = deletedCount + 1 THEN [threw |-> TRUE, fs |-> fsIn, deletedCount |-> deletedCount]
  ELSE unlinkLoopAll([fsIn EXCEPT !.files = [f \in DOMAIN fsIn.files \ {Head(files)} |-> fsIn.files[f]]],
                  Tail(files), failAt, deletedCount + 1)

RECURSIVE unlinkLoop(_, _, _, _)
\* the for loop of clearLogs over the names readdirSync returned; the unlink of
\* the log file numbered failAt (0: none) throws
unlinkLoop(fsIn, files, failAt, deletedCount) ==
  IF files = <<>> THEN [threw |-> FALSE, fs |-> fsIn, deletedCount |-> deletedCount]
  ELSE IF ~IsLogName(Head(files)) THEN unlinkLoop(fsIn, Tail(files), failAt, deletedCount)
  ELSE IF failAt = deletedCount + 1 THEN [threw |-> TRUE, fs |-> fsIn, deletedCount |-> deletedCount]
  ELSE unlinkLoop([fsIn EXCEPT !.files = [f \in DOMAIN fsIn.files \ {Head(files)} |-> fsIn.files[f]]],
                  Tail(files), failAt, deletedCount + 1)

\* clearLogs once the question is answered; files is what readdirSync returns
clearLogs(fsIn, answer, files, failAt) ==
  IF toLowerCase(answer) = "y"
    THEN IF ~fsIn.dirExists
      THEN [fs |-> fsIn, res |-> Message("Error clearing logs")]
      ELSE LET r == unlinkLoop(fsIn, files, failAt, 0) IN
        IF r.threw THEN [fs |-> r.fs, res |-> Message("Error clearing logs")]
        ELSE [fs |-> r.fs,
              res |-> [Message("Successfully deleted") EXCEPT !.count = r.deletedCount]]
    ELSE [fs |-> fsIn, res |-> Message("Operation cancelled")]
(***************************************************************************)
(* SpecCmd: one inspection command run on a logs directory.  The initial   *)
(* directories include every directory a clear can leave behind.           *)
(***************************************************************************)
\* arguments of two logApiCall calls: a call that succeeded, a call that failed
OkArgs ==
  [NoArgs EXCEPT
     !.url = UrlStr("api.anthropic.com", "/v1/messages?beta=true"),
     !.method = Str("POST"),
     !.headers = Obj([k \in {"authorization", "content-type"} |->
                       IF k = "authorization" THEN Str("Bearer secret") ELSE Str("application/json")]),
     !.body = Obj([k \in {"model"} |-> Str("claude")]),
     !.response = Response(1, 200, Obj([k \in {"content-type"} |-> Str("application/json")]),
                           <<JsonText(Obj([k \in {"id"} |-> Str("msg_1")]))>>),
     !.responseBody = Obj([k \in {"id"} |-> Str("msg_1")]),
     !.durationMs = Num(12),
     !.service = Str("anthropic")]

FailedArgs ==
  [NoArgs EXCEPT
     !.url = UrlStr("api.openai.com", "/v1/chat"),
     !.method = Str("GET"),
     !.headers = Obj(NoKids),
     !.error = ErrorObj(Str("fetch failed"), Str("at fetch")),
     !.durationMs = Num(3),
     !.service = Str("openai")]

\* the line logApiCall(a) writes at clock t with id
WriterLine(a, t, id) ==
  LET r == logApiCall(a, [dirExists |-> TRUE, files |-> NoFiles], t, id,
                      [mkdirFails |-> FALSE, appendFails |-> FALSE])
  IN NonEmptyLines(r.fs.files[FileName("api-log-", getCurrentDate(t), ".jsonl")].text)[1]

\* a line in the shape formatAndDisplayLogEntry reads
NestedLine ==
  <<JsonText(Obj([k \in {"timestamp", "service", "request", "response", "responseTime"} |->
      CASE k = "timestamp" -> IsoString(1)
        [] k = "service" -> Str("anthropic")
        [] k = "request" -> Obj([j \in {"method", "url", "body"} |->
             CASE j = "method" -> Str("GET")
               [] j = "url" -> UrlStr("api.anthropic.com", "/v1/models")
               [] OTHER -> Str("ping")])
        [] k = "response" -> Obj([j \in {"status", "body"} |->
             IF j = "status" THEN Num(404) ELSE Str("missing")])
        [] OTHER -> Num(7)]))>>

\* the lines a log file is made of: written by logApiCall, or found there
LineChoices ==
  {WriterLine(OkArgs, 0, 1), WriterLine(FailedArgs, 0, 2), NestedLine,
   <<Lit("not json {")>>, <<JsonText(Null)>>, <<>>}

RECURSIVE JoinLines(_)
JoinLines(lines) == IF lines = <<>> THEN <<>> ELSE Head(lines) \o <<NL>> \o JoinLines(Tail(lines))

\* a file of more entries than tail shows by default
LongText == JoinLines([i \in 1..(TailDefault + 1) |-> WriterLine(OkArgs, 0, i)])

MainTexts ==
  {JoinLines(ls) : ls \in UNION {[1..n -> LineChoices] : n \in 0..MaxLines}} \cup {LongText}

MainFile == FileName("api-log-", 1, ".jsonl")
OlderFile == FileName("api-log-", 0, ".jsonl")
PlainLog == FileName("old", 0, ".log")
NotesFile == FileName("notes", 0, ".txt")

\* the other files of the directory, with their birthtimes
ExtraFiles ==
  [f \in {OlderFile, PlainLog, NotesFile} |->
     CASE f = OlderFile -> [birth |-> 1, text |-> WriterLine(FailedArgs, 0, 9) \o <<NL>>]
       [] f = PlainLog -> [birth |-> 5, text |-> <<Lit("started"), NL, Lit("stopped"), NL>>]
       [] OTHER -> [birth |-> 7, text |-> <<Lit("my notes")>>]]

Directories ==
  {EmptyFs}
    \cup {[dirExists |-> TRUE, files |-> [f \in X |-> ExtraFiles[f]]] : X \in SUBSET DOMAIN ExtraFiles}
    \cup {[dirExists |-> TRUE,
           files |-> [f \in X \cup {MainFile} |->
                        IF f = MainFile THEN [birth |-> 3, text |-> txt] ELSE ExtraFiles[f]]] :
            X \in SUBSET DOMAIN ExtraFiles, txt \in MainTexts}

InitCmd ==
  /\ fs \in Directories
  /\ now = 0 /\ nextId = 1
  /\ calls = NoCalls /\ appends = <<>> /\ san = IdleSan /\ svc = IdleSvc
  /\ cmd = IdleCmd

CmdRecord(name, given, n, target, answer, res) ==
  [name |-> name, given |-> given, n |-> n, target |-> target, answer |-> answer,
   before |-> fs, res |-> res]

\* /apilogs tail [n]
TailCmd ==
  /\ cmd = IdleCmd
  /\ \E given \in BOOLEAN : \E n \in 0..MaxTail :
       /\ given \/ n = 0
       /\ cmd' = CmdRecord("tail", given, n, FileName("", 0, ""), "",
                           tailLogs(fs, IF given THEN n ELSE TailDefault))
  /\ UNCHANGED <<fs, now, nextId, calls, appends, san, svc>>

\* the names given to view: with and without extension, present and missing
ViewArgs ==
  {MainFile, [MainFile EXCEPT !.ext = ""], PlainLog, NotesFile, FileName("api-log-", 2, "")}

\* /apilogs view <file> [n]
ViewCmd ==
  /\ cmd = IdleCmd
  /\ \E arg \in ViewArgs : \E given \in BOOLEAN : \E n \in 0..MaxTail :
       /\ given \/ n = 0
       /\ cmd' = CmdRecord("view", given, n, ResolveView(arg), "",
                           viewLogFile(fs, ResolveView(arg), IF given THEN n ELSE 0))
  /\ UNCHANGED <<fs, now, nextId, calls, appends, san, svc>>

Answers == {"y", "Y", "yes", "n", "N", ""}

\* the orders in which readdirSync may list the directory
Listings(fsIn) ==
  LET names == DOMAIN fsIn.files IN
  {l \in [1..Cardinality(names) -> names] : \A i, j \in 1..Cardinality(names) : l[i] = l[j] => i = j}

\* /apilogs clear, answered; readdirSync and unlinkSync run only after a "y"
ClearCmd ==
  /\ cmd = IdleCmd
  /\ \E answer \in Answers :
       \E files \in (IF toLowerCase(answer) = "y" THEN Listings(fs) ELSE {<<>>}) :
         \E failAt \in 0..Cardinality({i \in DOMAIN files : IsLogName(files[i])}) :
           LET r == clearLogs(fs, answer, files, failAt) IN
           /\ fs' = r.fs
           /\ cmd' = CmdRecord("clear", FALSE, 0, FileName("", 0, ""), answer, r.res)
  /\ UNCHANGED <<now, nextId, calls, appends, san, svc>>

NextCmd == TailCmd \/ ViewCmd \/ ClearCmd

SpecCmd == InitCmd /\ [][NextCmd]_vars
(***************************************************************************)
(* Claims about the inspection command.                                    *)
(***************************************************************************)
Min(a, b) == IF a <= b THEN a ELSE b

RECURSIVE IsSubseq(_, _)
\* a's elements occur in b, in a's order
IsSubseq(a, b) ==
  IF a = <<>> THEN TRUE
  ELSE IF b = <<>> THEN FALSE
  ELSE IF Head(a) = Head(b) THEN IsSubseq(Tail(a), Tail(b))
  ELSE IsSubseq(a, Tail(b))

\* what the claim expects of the display of an entry logApiCall wrote: the
\* fields of the written entry, in the order the claim lists them
ExpectedDisplay(entry) ==
       (IF Truthy(Get(entry, "timestamp")) THEN <<Seg("timestamp", Get(entry, "timestamp"))>> ELSE <<>>)
       \o (IF Truthy(Get(entry, "service")) THEN <<Seg("service", Get(entry, "service"))>> ELSE <<>>)
       \o <<Seg("method", OrElse(Get(entry, "method"), Str("UNKNOWN"))),
            Seg("path", getUrlPath(OrElse(Get(entry, "url"), Str(""))))>>
       \o (IF Truthy(Get(entry, "headers")) /\ ObjectKeys(Get(entry, "headers")) # {}
             THEN <<Seg("headers", Get(entry, "headers"))>> ELSE <<>>)
       \o (IF Truthy(Get(entry, "body")) THEN <<Seg("body", Get(entry, "body"))>> ELSE <<>>)
       \o (IF Truthy(Get(entry, "statusCode")) THEN <<Seg("status", Get(entry, "statusCode"))>> ELSE <<>>)
       \o (IF Truthy(Get(entry, "statusCode")) /\ Truthy(Get(entry, "durationMs"))
             THEN <<Seg("duration", Get(entry, "durationMs"))>> ELSE <<>>)
       \o (IF Truthy(Get(entry, "responseBody"))
             THEN <<Seg("responseBody", Get(entry, "responseBody"))>> ELSE <<>>)
       \o (IF Truthy(Get(entry, "error"))
             THEN <<Seg("error", OrElse(Get(Get(entry, "error"), "message"), Get(entry, "error")))>>
                  \o (IF Truthy(Get(Get(entry, "error"), "stack"))
                        THEN <<Seg("stack", Get(Get(entry, "error"), "stack"))>> ELSE <<>>)
             ELSE <<>>)

\* an entry with the fields every logApiCall entry has
WriterWritten(e) ==
  e.t = "object" /\ {"timestamp", "id", "service", "url", "method", "durationMs"} \subseteq DOMAIN e.kids

\* the log files of a directory, and the one created last
LogFilesOf(fsIn) == IF fsIn.dirExists THEN {f \in DOMAIN fsIn.files : IsLogName(f)} ELSE {}
LatestOf(fsIn) ==
  CHOOSE f \in LogFilesOf(fsIn) : \A g \in LogFilesOf(fsIn) : fsIn.files[g].birth <= fsIn.files[f].birth

\* whether the command last run read a file, which one, and its non-empty lines
CmdReads ==
  /\ cmd.name \in {"tail", "view"}
  /\ cmd.before.dirExists
  /\ IF cmd.name = "tail" THEN LogFilesOf(cmd.before) # {}
                          ELSE cmd.target \in DOMAIN cmd.before.files
CmdFile == IF cmd.name = "tail" THEN LatestOf(cmd.before) ELSE cmd.target
CmdLines == NonEmptyLines(cmd.before.files[CmdFile].text)

\* C6: an entry written by logApiCall is displayed with, after the timestamp and
\* the service name and in this order, its method and URL path, its request
\* headers and body, its status and duration, its response body, its error
\* message and stack, each when present.
C6_DisplaysWrittenFields ==
  (CmdReads /\ cmd.res.kind = "entries") =>
    \A i \in 1..Len(cmd.res.shown) :
      LET e == cmd.res.entries[Len(cmd.res.entries) - Len(cmd.res.shown) + i] IN
      WriterWritten(e) => IsSubseq(ExpectedDisplay(e), cmd.res.shown[i])

\* C7: reading a file yields one record per non-empty line, in file order: the
\* parsed entry, or the fallback record holding the line, which is displayed
\* verbatim; no line makes the read end in an error.
C7_OneRecordPerLine ==
  (CmdReads /\ Len(CmdLines) > 0) =>
    /\ cmd.res.kind = "entries"
    /\ Len(cmd.res.entries) = Len(CmdLines)
    /\ \A i \in 1..Len(CmdLines) :
         IF JSONparse(CmdLines[i]).threw
           THEN /\ cmd.res.entries[i] = Obj([k \in {"raw"} |-> StrOf(CmdLines[i])])
                /\ LET j == i - (Len(CmdLines) - Len(cmd.res.shown)) IN
                   j >= 1 => cmd.res.shown[j] = <<Seg("raw", StrOf(CmdLines[i]))>>
           ELSE cmd.res.entries[i] = JSONparse(CmdLines[i]).val

\* what is displayed for the last m lines
LastDisplayed(m) ==
  [i \in 1..m |->
     formatAndDisplayLogEntry(ParseLine(CmdLines[Len(CmdLines) - m + i])).out]

\* C8: tail n (n = 20 when omitted) displays the last min(n, k) entries of the
\* log file created last; view displays the last min(n, k) for n > 0 and all k
\* for n = 0 or n omitted.
C8_LastEntries ==
  (CmdReads /\ cmd.res.kind = "entries") =>
    LET k == Len(CmdLines)
        n == IF cmd.given THEN cmd.n ELSE IF cmd.name = "tail" THEN 20 ELSE 0
    IN /\ cmd.res.file = CmdFile
       /\ cmd.name = "tail" => cmd.res.shown = LastDisplayed(Min(n, k))
       /\ cmd.name = "view" => cmd.res.shown = LastDisplayed(IF n > 0 THEN Min(n, k) ELSE k)

AffirmativeAnswers == {"y", "Y"}

\* C9: clear deletes only after an affirmative answer; then it deletes every
\* .log and .jsonl file, leaves the other files, and reports the count; any
\* other answer leaves the directory as it was and reports cancellation; a
\* failure while deleting comes back as the result, never as an exception.
C9_Clear ==
  cmd.name = "clear" =>
    LET before == cmd.before.files
        after == fs.files
        logs == {f \in DOMAIN before : f.ext \in {".log", ".jsonl"}}
    IN /\ ~cmd.res.threw /\ cmd.res.kind = "message"
       /\ fs.dirExists = cmd.before.dirExists
       /\ DOMAIN after \subseteq DOMAIN before
       /\ \A f \in DOMAIN after : after[f] = before[f]
       /\ DOMAIN before \ logs \subseteq DOMAIN after
       /\ IF cmd.answer \in AffirmativeAnswers
            THEN \/ /\ cmd.res.msg = "Successfully deleted"
                    /\ DOMAIN after = DOMAIN before \ logs
                    /\ cmd.res.count = Cardinality(logs)
                 \/ /\ cmd.res.msg = "Error clearing logs"
            ELSE fs = cmd.before /\ cmd.res.msg = "Operation cancelled"

\* C9 witness: a confirmed clear deleted several log files and left another file
C9_Witness ==
  /\ cmd.name = "clear" /\ cmd.answer = "Y"
  /\ cmd.res.msg = "Successfully deleted" /\ cmd.res.count >= 2
  /\ NotesFile \in DOMAIN fs.files
(***************************************************************************)
(* The fetch interceptor and the withApiLogging wrapper (apiLogger.ts).    *)
(***************************************************************************)
\* a Request instance
Request(url, method, hdrs, body) ==
  [t |-> "request", n |-> 0,
   kids |-> [k \in {"url", "method", "headers", "body"} |->
      CASE k = "url" -> url [] k = "method" -> method [] k = "headers" -> hdrs [] OTHER -> body],
   txt |-> <<>>]

\* the characters of the host names the calls use
HostChars(name) ==
  CASE name = "api.anthropic.com" -> F_api \o P_anthropic_com
    [] name = "api.openai.com" -> F_api \o P_openai_com
    [] OTHER -> F_example_com

\* getServiceFromUrl(url) for the URL string of a Request
serviceOf(url) == Str(getServiceFromUrl(Url(HostChars(ParseUrl(url).host), ParseUrl(url).pathname)))

\* text.startsWith('{') || text.startsWith('[')
LooksLikeJson(text) ==
  /\ text # <<>>
  /\ \/ Head(text).kind = "json" /\ Head(text).doc.t \in {"object", "array"}
     \/ Head(text).kind = "lit" /\ Head(text).lit \in {"{not json", "[not json"}

\* the body as loggedFetch records it from the text of the clone: the text, the
\* parsed JSON when it looks like JSON, the placeholder when that parse throws
bodyFromText(text, placeholder) ==
  IF LooksLikeJson(text)
    THEN IF JSONparse(text).threw THEN Str(placeholder) ELSE JSONparse(text).val
    ELSE StrOf(text)

\* extractRequestDetails(args): the first argument that is a Request or has url and method
RECURSIVE extractRequestDetails(_)
extractRequestDetails(args) ==
  IF args = <<>> THEN Undefined
  ELSE LET arg == Head(args) IN
    IF Truthy(arg) /\ TypeofObject(arg) /\ arg.t = "request"
      THEN Obj([k \in {"url", "method", "headers", "body"} |-> Get(arg, k)])
    ELSE IF Truthy(arg) /\ TypeofObject(arg) /\ Truthy(Get(arg, "url")) /\ Truthy(Get(arg, "method"))
      THEN Obj([k \in {"url", "method", "headers", "body"} |-> Get(arg, k)])
    ELSE extractRequestDetails(Tail(args))

\* extractResponseDetails(result)
extractResponseDetails(result) ==
  IF ~Truthy(result) THEN Undefined
  ELSE IF result.t = "response"
    THEN Obj([k \in {"response", "status"} |-> IF k = "response" THEN result ELSE Num(result.n)])
  ELSE IF Truthy(Get(result, "response")) /\ Get(result, "response").t = "response"
    THEN Obj([k \in {"response", "status", "body"} |->
           CASE k = "response" -> Get(result, "response")
             [] k = "status" -> Num(Get(result, "response").n)
             [] OTHER -> Get(result, "body")])
  ELSE IF Get(result, "status").t # "undefined"
    THEN Obj([k \in {"status", "body"} |->
           IF k = "status" THEN Get(result, "status")
           ELSE OrElse(Get(result, "data"), Get(result, "body"))])
  ELSE Undefined

\* x?.key
OptGet(x, key) == IF x.t \in {"undefined", "null"} THEN Undefined ELSE Get(x, key)

\* the arguments loggedFetch gives logApiCall in its catch block
fetchErrorArgs(c, response, error, durationMs) ==
  [NoArgs EXCEPT !.url = Get(c.sc.req, "url"), !.method = Get(c.sc.req, "method"),
                 !.headers = Get(c.sc.req, "headers"), !.body = c.body,
                 !.response = response, !.error = error,
                 !.durationMs = Num(durationMs),
                 !.service = serviceOf(Get(c.sc.req, "url"))]

\* the success path reporting the response as an error
fetchSuccessArgsAsError(c) == fetchErrorArgs(c, c.settled.val, c.settled.val, c.durationMs)

\* the arguments loggedFetch gives logApiCall after a response
fetchSuccessArgs(c) ==
  [NoArgs EXCEPT !.url = Get(c.sc.req, "url"), !.method = Get(c.sc.req, "method"),
                 !.headers = Get(c.sc.req, "headers"), !.body = c.body,
                 !.response = c.settled.val,
                 !.responseBody = IF c.sc.readFails THEN Str("[Could not read response body]")
                                  ELSE bodyFromText(c.settled.val.kids["body"].txt,
                                                    "[Could not read response body]"),
                 !.durationMs = Num(c.durationMs),
                 !.service = serviceOf(Get(c.sc.req, "url"))]

\* the arguments the finally block of withApiLogging gives logApiCall
wrapArgs(c, result, error, durationMs) ==
  LET requestDetails == extractRequestDetails(c.sc.args)
      responseDetails == IF Truthy(result) THEN extractResponseDetails(result) ELSE Undefined
  IN [NoArgs EXCEPT !.url = OrElse(OptGet(requestDetails, "url"), Str("unknown")),
                    !.method = OrElse(OptGet(requestDetails, "method"), Str("unknown")),
                    !.headers = OptGet(requestDetails, "headers"),
                    !.body = OptGet(requestDetails, "body"),
                    !.response = OptGet(responseDetails, "response"),
                    !.responseBody = OptGet(responseDetails, "body"),
                    !.statusCode = OptGet(responseDetails, "status"),
                    !.error = error,
                    !.durationMs = Num(durationMs),
                    !.service = Str(c.sc.serviceName)]
(***************************************************************************)
(* Spec: invocations of loggedFetch and of withApiLogging wrappers, each   *)
(* running from one await to the next, interleaved on one event loop.      *)
(* What the underlying function does and which filesystem calls fail is    *)
(* fixed per invocation when the run starts.                               *)
(***************************************************************************)
\* a body stream that yields text
StreamOf(text) == [Stream EXCEPT !.txt = text]

\* what logApiCall would throw without its catch
LogFailure == ErrorObj(Str("log write failed"), Str("at logApiCall"))

Secrets == Obj([k \in {"api_key", "prompt"} |-> IF k = "api_key" THEN Str("k") ELSE Str("hi")])
AuthHeaders == Obj([k \in {"authorization"} |-> Str("Bearer k")])
JsonHeaders == Obj([k \in {"content-type"} |-> Str("application/json")])

\* the requests given to fetch
PostJson ==
  Request(UrlStr("api.anthropic.com", "/v1/messages"), Str("POST"), AuthHeaders,
          StreamOf(<<JsonText(Secrets)>>))
GetModels == Request(UrlStr("api.openai.com", "/v1/models"), Str("GET"), Obj(NoKids), Null)
PutBroken ==
  Request(UrlStr("example.com", "/upload"), Str("PUT"), Obj(NoKids),
          StreamOf(<<Lit("{not json")>>))

\* the responses an underlying function resolves with
Ok200 == Response(1, 200, JsonHeaders, <<JsonText(Obj([k \in {"token"} |-> Str("t")]))>>)
Err500 == Response(2, 500, Obj(NoKids), <<Lit("oops")>>)
Empty204 == Response(3, 204, Obj(NoKids), <<>>)

\* the values an underlying function throws
Thrown == {ErrorObj(Str("fetch failed"), Str("at fetch")), Str("boom"), Null, Num(0), Circular}

\* the argument lists given to a wrapped function
RequestLike ==
  << Obj([k \in {"url", "method", "headers", "body"} |->
        CASE k = "url" -> UrlStr("api.anthropic.com", "/v1/messages")
          [] k = "method" -> Str("POST")
          [] k = "headers" -> AuthHeaders
          [] OTHER -> Secrets]) >>
SecondIsRequest == << Str("prompt"), GetModels >>
NoRequest == << Str("prompt") >>

\* the results a wrapped function resolves with
WrapResults ==
  { Ok200,
    Obj([k \in {"status", "data"} |-> IF k = "status" THEN Num(201) ELSE Secrets]),
    Obj([k \in {"response", "body"} |-> IF k = "response" THEN Err500 ELSE Str("oops")]),
    Str("text"),
    Undefined }

Resolved(v) == [how |-> "resolved", val |-> v]
Rejected(v) == [how |-> "rejected", val |-> v]
Pending == [how |-> "pending", val |-> Undefined]

FetchScenario(req, outcome, readFails, env) ==
  [kind |-> "fetch", req |-> req, args |-> <<>>, serviceName |-> "",
   outcome |-> outcome, readFails |-> readFails, env |-> env]
WrapScenario(args, outcome, env) ==
  [kind |-> "wrap", req |-> Undefined, args |-> args, serviceName |-> "anthropic",
   outcome |-> outcome, readFails |-> FALSE, env |-> env]

\* the filesystem calls that fail: none, mkdirSync, appendFileSync
WorkingFs == [mkdirFails |-> FALSE, appendFails |-> FALSE]
LogEnvs == {e \in Envs : ~(e.mkdirFails /\ e.appendFails)}

Scenarios ==
  {FetchScenario(q, Resolved(Ok200), FALSE, e) : q \in {PostJson, GetModels, PutBroken}, e \in LogEnvs}
  \cup {FetchScenario(PostJson, Resolved(r), FALSE, e) : r \in {Err500, Empty204}, e \in LogEnvs}
  \cup {FetchScenario(GetModels, Resolved(Ok200), TRUE, e) : e \in LogEnvs}
  \cup {FetchScenario(GetModels, Rejected(v), FALSE, e) : v \in Thrown, e \in LogEnvs}
  \cup {WrapScenario(RequestLike, Resolved(r), e) : r \in WrapResults, e \in LogEnvs}
  \cup {WrapScenario(a, Resolved(Ok200), WorkingFs) : a \in {SecondIsRequest, NoRequest}}
  \cup {WrapScenario(RequestLike, Rejected(v), e) : v \in Thrown, e \in LogEnvs}

NewCall(sc) ==
  [sc |-> sc, pc |-> "idle", startTime |-> 0, durationMs |-> 0, body |-> Undefined,
   settled |-> Pending, out |-> [how |-> "none", val |-> Undefined],
   wrote |-> <<>>, logDate |-> 0, dirWas |-> FALSE, logThrew |-> FALSE]

Init ==
  /\ fs \in {EmptyFs, [EmptyFs EXCEPT !.dirExists = TRUE]}
  /\ now = 0 /\ nextId = 1 /\ appends = <<>>
  /\ calls \in [1..MaxCalls -> {NewCall(sc) : sc \in Scenarios}]
  /\ cmd = IdleCmd /\ san = IdleSan /\ svc = IdleSvc

\* the line a logApiCall added, if it added one
Written(fsIn, fsOut, t) ==
  IF fsOut.files = fsIn.files THEN <<>>
  ELSE <<TodaysLines(fsOut, t)[Len(TodaysLines(fsOut, t))]>>

\* the history after a logApiCall that wrote the lines w
Appended(w, t) == appends \o [k \in 1..Len(w) |-> [date |-> getCurrentDate(t), line |-> w[k]]]

\* invocation i, in state c, calls logApiCall once and ends with outcome `out`,
\* or by throwing what logApiCall threw
LogAndFinish(i, c, a, out) ==
  LET r == logApiCall(a, fs, now, nextId, c.sc.env)
      w == Written(fs, r.fs, now)
  IN  /\ fs' = r.fs
      /\ nextId' = nextId + 1
      /\ appends' = Appended(w, now)
      /\ calls' = [calls EXCEPT ![i] =
           [c EXCEPT !.pc = "done", !.wrote = @ \o w, !.logDate = getCurrentDate(now),
                     !.dirWas = fs.dirExists, !.logThrew = r.threw,
                     !.out = IF r.threw THEN [how |-> "threw", val |-> LogFailure] ELSE out]]

\* an invocation starts: loggedFetch up to its first await, or the wrapper up to `await fn`
Begin(i) ==
  /\ calls[i].pc = "idle"
  /\ IF i = 1 THEN TRUE ELSE calls[i - 1].pc # "idle"
  /\ calls' = [calls EXCEPT ![i] =
       IF @.sc.kind = "fetch" /\ Truthy(Get(@.sc.req, "body"))
         THEN [@ EXCEPT !.pc = "readingRequest"]
         ELSE [@ EXCEPT !.pc = "fetching", !.startTime = now]]
  /\ UNCHANGED <<fs, now, nextId, appends, cmd, san, svc>>

\* loggedFetch: the text of the cloned request arrives; originalFetch is called
RequestBodyRead(i) ==
  /\ calls[i].pc = "readingRequest"
  /\ calls' = [calls EXCEPT ![i] =
       [@ EXCEPT !.pc = "fetching", !.startTime = now,
                 !.body = bodyFromText(Get(calls[i].sc.req, "body").txt,
                                       "[Could not read request body]")]]
  /\ UNCHANGED <<fs, now, nextId, appends, cmd, san, svc>>

\* loggedFetch: originalFetch resolves; the clone of the response is being read
FetchResolves(i) ==
  /\ calls[i].pc = "fetching" /\ calls[i].sc.kind = "fetch"
  /\ calls[i].sc.outcome.how = "resolved"
  /\ calls' = [calls EXCEPT ![i] =
       [@ EXCEPT !.pc = "readingResponse", !.settled = calls[i].sc.outcome,
                 !.durationMs = now - calls[i].startTime]]
  /\ UNCHANGED <<fs, now, nextId, appends, cmd, san, svc>>

\* loggedFetch: originalFetch rejects; the catch block logs and rethrows
FetchRejects(i) ==
  /\ calls[i].pc = "fetching" /\ calls[i].sc.kind = "fetch"
  /\ calls[i].sc.outcome.how = "rejected"
  /\ LET c == [calls[i] EXCEPT !.settled = calls[i].sc.outcome, !.durationMs = now - calls[i].startTime] IN
       LogAndFinish(i, c, fetchErrorArgs(c, Undefined, c.settled.val, c.durationMs),
                    [how |-> "threw", val |-> c.settled.val])
  /\ UNCHANGED <<now, cmd, san, svc>>

\* loggedFetch: the body stream has ended, so the text of the cloned response arrives
\* (or reading it fails); the call
\* is logged and the response returned.  An exception in this block would be caught by
\* the catch block, which logs it and rethrows it.
ResponseBodyRead(i) ==
  /\ calls[i].pc = "readingResponse"
  /\ calls[i].settled.val.kids["body"].t # "stream"
  /\ LET c == calls[i]
         r == logApiCall(fetchSuccessArgs(c), fs, now, nextId, c.sc.env)
         w == Written(fs, r.fs, now)
     IN IF ~r.threw
          THEN LogAndFinish(i, c, fetchSuccessArgs(c), [how |-> "returned", val |-> c.settled.val])
          ELSE LET r2 == logApiCall(fetchErrorArgs(c, c.settled.val, LogFailure, now - c.startTime),
                                    r.fs, now, nextId + 1, c.sc.env)
                   w2 == Written(r.fs, r2.fs, now)
               IN /\ fs' = r2.fs
                  /\ nextId' = nextId + 2
                  /\ appends' = Appended(w \o w2, now)
                  /\ calls' = [calls EXCEPT ![i] =
                       [c EXCEPT !.pc = "done", !.wrote = @ \o w \o w2,
                                 !.logDate = getCurrentDate(now), !.dirWas = fs.dirExists,
                                 !.logThrew = TRUE,
                                 !.out = [how |-> "threw", val |-> LogFailure]]]
  /\ UNCHANGED <<now, cmd, san, svc>>

\* withApiLogging: fn settles; the finally block logs the call before the result is
\* returned or the error rethrown.  An exception in the finally block replaces either.
WrapSettles(i) ==
  /\ calls[i].pc = "fetching" /\ calls[i].sc.kind = "wrap"
  /\ LET c == [calls[i] EXCEPT !.settled = calls[i].sc.outcome, !.durationMs = now - calls[i].startTime]
         result == IF c.settled.how = "resolved" THEN c.settled.val ELSE Undefined
         error == IF c.settled.how = "rejected" THEN c.settled.val ELSE Undefined
     IN LogAndFinish(i, c, wrapArgs(c, result, error, c.durationMs),
                     [how |-> IF c.settled.how = "resolved" THEN "returned" ELSE "threw",
                      val |-> c.settled.val])
  /\ UNCHANGED <<now, cmd, san, svc>>

\* the clock runs on to the same time of the next day, once in a run
Tick ==
  /\ getCurrentDate(now) = 0
  /\ now' = now + DayLen
  /\ UNCHANGED <<fs, nextId, calls, appends, cmd, san, svc>>

Next ==
  \/ \E i \in DOMAIN calls : Begin(i)
  \/ \E i \in DOMAIN calls : RequestBodyRead(i)
  \/ \E i \in DOMAIN calls : FetchResolves(i)
  \/ \E i \in DOMAIN calls : FetchRejects(i)
  \/ \E i \in DOMAIN calls : ResponseBodyRead(i)
  \/ \E i \in DOMAIN calls : WrapSettles(i)

Spec == Init /\ [][Next]_vars

(***************************************************************************)
(* SpecConc: several intercepted calls in flight while the clock runs      *)
(* past midnight.                                                          *)
(***************************************************************************)
ConcScenarios ==
  {FetchScenario(PostJson, Resolved(Ok200), FALSE, e) : e \in {WorkingFs, [WorkingFs EXCEPT !.appendFails = TRUE]}}
  \cup {FetchScenario(GetModels, Rejected(ErrorObj(Str("fetch failed"), Str("at fetch"))), FALSE, WorkingFs)}

InitConc ==
  /\ fs \in {EmptyFs, [EmptyFs EXCEPT !.dirExists = TRUE]}
  /\ now = 0 /\ nextId = 1 /\ appends = <<>>
  /\ calls \in [1..MaxInFlight -> {NewCall(sc) : sc \in ConcScenarios}]
  /\ cmd = IdleCmd /\ san = IdleSan /\ svc = IdleSvc

NextConc ==
  \/ \E i \in DOMAIN calls : Begin(i)
  \/ \E i \in DOMAIN calls : RequestBodyRead(i)
  \/ \E i \in DOMAIN calls : FetchResolves(i)
  \/ \E i \in DOMAIN calls : FetchRejects(i)
  \/ \E i \in DOMAIN calls : ResponseBodyRead(i)
  \/ Tick

SpecConc == InitConc /\ [][NextConc]_vars

(***************************************************************************)
(* Claims about the interceptor and the wrapper.                           *)
(***************************************************************************)
Done(i) == calls[i].pc = "done"
Succeeded(i) == Done(i) /\ calls[i].settled.how = "resolved"
Threw(i) == Done(i) /\ calls[i].settled.how = "rejected"

\* the invocation gave its caller what the underlying function produced
SameOutcome(i) ==
  /\ calls[i].out.val = calls[i].settled.val
  /\ calls[i].out.how = IF calls[i].settled.how = "resolved" THEN "returned" ELSE "threw"

\* the entries the invocation appended, as a reader of the file parses them
EntriesOf(i) == [k \in 1..Len(calls[i].wrote) |-> JSONparse(calls[i].wrote[k]).val]
HasField(e, k) == k \in DOMAIN e.kids

\* directory creation or the file append failed when the invocation logged
WriteFailed(i) ==
  \/ calls[i].sc.env.appendFails
  \/ calls[i].sc.env.mkdirFails /\ ~calls[i].dirWas

\* the entry of the invocation could not be serialised
Unserialisable(i) == Threw(i) /\ calls[i].settled.val.t = "circular"

\* every line of every log file was put there by one append, in append order
FilesMatchHistory ==
  /\ \A f \in DOMAIN fs.files :
       NonEmptyLines(fs.files[f].text) =
         LET mine == SelectSeq(appends, LAMBDA a : a.date = f.date) IN
         [k \in 1..Len(mine) |-> mine[k].line]
  /\ \A k \in 1..Len(appends) :
       FileName("api-log-", appends[k].date, ".jsonl") \in DOMAIN fs.files

\* C1 (as stated): for every call through the fetch interceptor or a withApiLogging
\* wrapper whose underlying function succeeds, the caller gets the very response /
\* result the underlying function produced, and exactly one log entry is appended for
\* that invocation, with no error field.
C1_SuccessLoggedOnce ==
  \A i \in DOMAIN calls : Succeeded(i) =>
     /\ SameOutcome(i)
     /\ Len(calls[i].wrote) = 1
     /\ \A k \in 1..Len(calls[i].wrote) : ~HasField(EntriesOf(i)[k], "error")

\* C1 (amended): for every such call the caller gets the very response / result the
\* underlying function produced, and exactly one log entry without an error field is
\* appended for that invocation, unless directory creation or the file append fails,
\* in which case none is appended.
C1_SuccessLoggedOnceUnlessWriteFails ==
  \A i \in DOMAIN calls : Succeeded(i) =>
     /\ SameOutcome(i)
     /\ Len(calls[i].wrote) = IF WriteFailed(i) THEN 0 ELSE 1
     /\ \A k \in 1..Len(calls[i].wrote) :
          /\ EntriesOf(i)[k].t = "object"
          /\ ~HasField(EntriesOf(i)[k], "error")
          /\ ~JSONparse(calls[i].wrote[k]).threw

\* a successful fetch has returned its response and left its one entry
C1_Witness ==
  \E i \in DOMAIN calls :
     /\ Succeeded(i) /\ calls[i].sc.kind = "fetch" /\ SameOutcome(i)
     /\ Len(calls[i].wrote) = 1 /\ HasField(EntriesOf(i)[1], "statusCode")

\* C2: for every call through the fetch interceptor or a withApiLogging wrapper whose
\* underlying function throws a value v (an Error object or not), the caller is thrown
\* the same v and exactly one log entry is appended for that invocation, whose error
\* field is populated and whose statusCode and responseBody are absent.  Stated here
\* for the invocations whose filesystem calls all work.
C2_FailureLoggedWithError ==
  \A i \in DOMAIN calls : Threw(i) /\ ~WriteFailed(i) =>
     /\ SameOutcome(i)
     /\ Len(calls[i].wrote) = 1
     /\ \A k \in 1..Len(calls[i].wrote) :
          /\ HasField(EntriesOf(i)[k], "error")
          /\ ~HasField(EntriesOf(i)[k], "statusCode")
          /\ ~HasField(EntriesOf(i)[k], "responseBody")

\* C3: logApiCall never throws to its caller; when directory creation, serialisation
\* of the entry or the file append fails it returns normally and no line is added to
\* any log file; and a call whose logging fails still returns the same response, or
\* throws the same error, as it does when logging succeeds.
C3_LoggingNeverInterferes ==
  /\ FilesMatchHistory
  /\ \A i \in DOMAIN calls : Done(i) =>
       /\ ~calls[i].logThrew
       /\ SameOutcome(i)
       /\ (WriteFailed(i) \/ Unserialisable(i)) => calls[i].wrote = <<>>

\* a call whose log write failed has ended as the underlying function did
C3_Witness ==
  /\ \E i \in DOMAIN calls :
       Done(i) /\ WriteFailed(i) /\ calls[i].wrote = <<>> /\ SameOutcome(i)
  /\ appends = <<>>

(***************************************************************************)
(* Claims about calls in flight at once.                                   *)
(***************************************************************************)
Dates == {getCurrentDate(0), getCurrentDate(DayLen)}
DayFile(d) == FileName("api-log-", d, ".jsonl")
DayLines(d) == IF DayFile(d) \in DOMAIN fs.files THEN NonEmptyLines(fs.files[DayFile(d)].text) ELSE <<>>

\* every started call has completed, and all of them logged on date d
AllCompletedOn(d) ==
  /\ \E i \in DOMAIN calls : Done(i)
  /\ \A i \in DOMAIN calls : calls[i].pc \in {"idle", "done"}
  /\ \A i \in DOMAIN calls : Done(i) => calls[i].logDate = d

\* each line is one complete JSON entry, and no two lines are the same entry
CompleteEntries(lines) ==
  /\ \A k \in 1..Len(lines) :
       /\ ~JSONparse(lines[k]).threw
       /\ JSONparse(lines[k]).val.t = "object"
       /\ LogFields \ {"headers", "body", "responseHeaders", "responseBody", "statusCode", "error"}
            \subseteq DOMAIN JSONparse(lines[k]).val.kids
  /\ \A k, m \in 1..Len(lines) :
       k # m => Get(JSONparse(lines[k]).val, "id") # Get(JSONparse(lines[m]).val, "id")

\* C5 (as stated): for any number of intercepted calls in flight at once and any
\* interleaving of their steps, once all of them have completed on one calendar date
\* the day's log file contains exactly one line per call, each line is one complete
\* JSON entry, lines already written are never altered, and the order of the lines is
\* the order in which the append operations were performed.
C5_OneLinePerCall ==
  /\ FilesMatchHistory
  /\ \A d \in Dates :
       /\ CompleteEntries(DayLines(d))
       /\ AllCompletedOn(d) => Len(DayLines(d)) = Cardinality({i \in DOMAIN calls : Done(i)})

\* C5 (amended): ... once all of them have completed on one calendar date the day's
\* log file contains exactly one line per call whose log write did not fail and none
\* for the others; each line is one complete JSON entry, lines already written are
\* never altered, and the order of the lines is the order of the appends.
C5_OneLinePerLoggedCall ==
  /\ FilesMatchHistory
  /\ \A d \in Dates :
       /\ CompleteEntries(DayLines(d))
       /\ \A i \in DOMAIN calls : Done(i) /\ calls[i].logDate = d =>
            IF WriteFailed(i) THEN calls[i].wrote = <<>>
            ELSE /\ Len(calls[i].wrote) = 1
                 /\ Cardinality({k \in 1..Len(DayLines(d)) : DayLines(d)[k] = calls[i].wrote[1]}) = 1
       /\ AllCompletedOn(d) =>
            Len(DayLines(d)) = Cardinality({i \in DOMAIN calls : Done(i) /\ ~WriteFailed(i)})

\* two calls were in flight together: the one started later appended first, and both
\* lines are in the same day's file
C5_Witness ==
  \E d \in Dates : \E i, j \in DOMAIN calls :
     /\ i < j /\ AllCompletedOn(d) /\ Done(i) /\ Done(j)
     /\ Len(calls[i].wrote) = 1 /\ Len(calls[j].wrote) = 1
     /\ Len(DayLines(d)) >= 2
     /\ DayLines(d)[1] = calls[j].wrote[1]
     /\ DayLines(d)[2] = calls[i].wrote[1]

(***************************************************************************)
(* SpecStream: intercepted calls whose response body may still be          *)
(* streaming when originalFetch resolves.  clonedResponse.text() resolves  *)
(* only when the body stream has ended; whether and when the server ends   *)
(* the stream is up to the server.                                         *)
(***************************************************************************)
\* a response whose body stream is still open, `sofar` having arrived
StreamingResponse(rid, status, hdrs, sofar) ==
  [Response(rid, status, hdrs, sofar) EXCEPT !.kids["body"] = StreamOf(sofar)]

\* the same response once its body stream has ended
Ended(r) == [r EXCEPT !.kids["body"] = StrOf(@.txt)]

Streaming200 == StreamingResponse(4, 200, Obj(NoKids), <<Lit("data: hi")>>)

StreamScenarios ==
  {FetchScenario(q, Resolved(r), FALSE, WorkingFs) :
     q \in {PostJson, GetModels}, r \in {Ok200, Streaming200}}
  \cup {FetchScenario(GetModels, Rejected(ErrorObj(Str("fetch failed"), Str("at fetch"))),
                      FALSE, WorkingFs)}

InitStream ==
  /\ fs = EmptyFs
  /\ now = 0 /\ nextId = 1 /\ appends = <<>>
  /\ calls \in [1..MaxInFlight -> {NewCall(sc) : sc \in StreamScenarios}]
  /\ cmd = IdleCmd /\ san = IdleSan /\ svc = IdleSvc

\* the server ends the body stream of the response invocation i is reading
StreamEnds(i) ==
  /\ calls[i].pc = "readingResponse"
  /\ calls[i].settled.val.kids["body"].t = "stream"
  /\ calls' = [calls EXCEPT ![i].settled.val = Ended(@)]
  /\ UNCHANGED <<fs, now, nextId, appends, cmd, san, svc>>

NextStream ==
  \/ \E i \in DOMAIN calls : Begin(i)
  \/ \E i \in DOMAIN calls : RequestBodyRead(i)
  \/ \E i \in DOMAIN calls : FetchResolves(i)
  \/ \E i \in DOMAIN calls : FetchRejects(i)
  \/ \E i \in DOMAIN calls : ResponseBodyRead(i)
  \/ \E i \in DOMAIN calls : StreamEnds(i)

\* the steps of invocation i up to the arrival of the response
Proceeds(i) == Begin(i) \/ RequestBodyRead(i) \/ FetchResolves(i)

\* the steps in which invocation i logs and ends, and the condition under which one
\* of them can be taken: originalFetch has rejected, or the text of the clone has arrived
Finishes(i) == FetchRejects(i) \/ ResponseBodyRead(i)
CanFinish(i) ==
  \/ /\ calls[i].pc = "fetching" /\ calls[i].sc.kind = "fetch"
     /\ calls[i].sc.outcome.how = "rejected"
  \/ /\ calls[i].pc = "readingResponse"
     /\ calls[i].settled.val.kids["body"].t # "stream"

\* the event loop runs every continuation that is ready, and the network settles every
\* request: weak fairness of the steps of each invocation (for the logging steps with
\* the enabling condition written out as CanFinish).  Nothing makes a server end a
\* stream: StreamEnds has no fairness.
FairStream ==
  \A i \in 1..MaxInFlight :
     /\ WF_vars(Proceeds(i))
     /\ []<>(~CanFinish(i)) \/ []<><<Finishes(i)>>_vars

SpecStream == InitStream /\ [][NextStream]_vars /\ FairStream

\* originalFetch has resolved for invocation i with a response
GotResponse(i) == calls[i].settled.how = "resolved" /\ calls[i].sc.kind = "fetch"

\* invocation i has returned that response to its caller
ReturnedResponse(i) == Done(i) /\ SameOutcome(i)

\* C11: whenever the underlying call resolves with a response, the fetch interceptor
\* eventually returns that response to its caller, and this does not depend on the
\* response body stream reaching its end: a response whose body is still being
\* streamed is handed to the caller just as the underlying call would hand it over.
C11_ResponseEventuallyReturned ==
  \A i \in 1..MaxInFlight : GotResponse(i) ~> ReturnedResponse(i)

=============================================================================
